---- MODULE Spec2Model ----
(***************************************************************************)
(* Model of python-ai-utils: the retry and timeout decorators, the         *)
(* token-bucket RateLimiter and AsyncAPIClient.request.                    *)
(*                                                                         *)
(* The code runs on one asyncio event loop, so everything a coroutine does *)
(* between two awaits is one atomic action.  Time is counted in ticks.     *)
(***************************************************************************)
EXTENDS Integers, Sequences, FiniteSets, TLC

(***************************************************************************)
(* Bounds of the model.                                                    *)
(***************************************************************************)
MaxRetries == 4      \* largest max_retries given to retry()
MaxSeconds == 2      \* largest deadline given to timeout(), in ticks
MaxDur == 2          \* longest run of an unguarded function, in ticks
MaxCap == 2          \* largest max_requests of a RateLimiter
MaxSlot == 2         \* largest time_window / max_requests, in ticks
NumTasks == 5        \* tasks that call acquire() at times of their choice
MaxTime == 6         \* the clock stops here
NumClients == 3      \* tasks that call AsyncAPIClient.request()
MaxClientTime == 3   \* the clock of a client run stops here
MaxRateLimit == 2    \* largest rate_limit given to AsyncAPIClient
NumUsers == 3        \* tasks that run `async with limiter:`
MaxStray == 1        \* release() calls made outside `async with`
MaxModeTime == 2     \* the clock of an `async with` run stops here
NumLive == 4         \* tasks that call acquire() in a run checked for progress
NumCallers == 3      \* tasks that call request() in a run with close() calls
MaxCloses == 1       \* close() calls made in such a run
MaxCallTime == 2     \* the clock of such a run stops here
NumCancel == 3       \* tasks that call acquire() in a run with cancellations
MaxLiveTime == 3     \* the last instant at which such a task calls acquire()

VARIABLES
    \* ---- retry(max_retries, backoff)(f) or retry(...)(timeout(seconds)(f)) ----
    max_retries,     \* argument of retry()
    backoff,         \* argument of retry()
    guarded,         \* TRUE when the retried function is timeout(seconds)(f)
    seconds,         \* argument of timeout()
    rpc,             \* where the retry wrapper is: idle, attempting, sleeping, returned, raised
    attempt,         \* loop variable of the retry wrapper
    delay,           \* local variable of the retry wrapper
    fElapsed,        \* ticks the invocation in flight has been running
    succeedsAt,      \* the invocation (0-based) on which f returns; Never if none
    sleepLeft,       \* ticks left of the backoff sleep in progress
    fEvents,         \* what f itself did on each invocation (history)
    outcomes,        \* what the retried function delivered on each invocation (history)
    sleeps,          \* the delays passed to asyncio.sleep by the retry wrapper (history)
    events,          \* the lines the retry wrapper printed, in order
    cancelled,       \* where the task was when it was cancelled: none, attempt, sleep (history)
    result,          \* what the caller of the retry wrapper got
    \* ---- RateLimiter(max_requests, time_window, mode="token_bucket") ----
    max_requests,    \* self.max_requests
    time_window,     \* self.time_window, in ticks
    tokens,          \* self.tokens, counted in units of 1/time_window token
    last_update,     \* self.last_update
    lockHolder,      \* the task that holds self.lock, or NoTask
    lockWaiters,     \* the tasks queued on self.lock, first come first
    now,             \* time.monotonic(), in ticks
    tpc,             \* where each task is: idle, lock_wait, sleeping, done, raised, cancelled
    wait_time,       \* local variable wait_time of each task (0 until it is computed)
    wakeAt,          \* when the asyncio.sleep of a sleeping task ends
    calledAt,        \* when each task called acquire() (history)
    started,         \* number of acquire() calls made so far (history)
    admitted,        \* the acquire() calls that returned, in order (history)
    late,            \* TRUE once the clock moved while a task was ready to run (history)
    \* ---- RateLimiter(max_requests, time_window, mode) used as `async with limiter:` ----
    mode,            \* self.mode
    lim,             \* the RateLimiter(...) call: none (not made yet), built, ValueError
    semValue,        \* the counter of self.semaphore
    semWaiters,      \* the tasks blocked in self.semaphore.acquire(), first come first
    wpc,             \* where each task is in its `async with`: out, entering, inside, exited, raised
    waited,          \* the tasks that were blocked in acquire() (history)
    strays,          \* release() calls made outside `async with` (history)
    \* ---- AsyncAPIClient(max_retries, rate_limit, enable_logging) ----
    client_max_retries, \* self.max_retries
    rate_limit,      \* the rate_limit argument; NoLimit stands for None
    enable_logging,  \* whether self.logger is set
    timeout_seconds, \* self.timeout_seconds
    timeoutArg,      \* the timeout argument of the request() calls of the run
    logger_raises,   \* TRUE when StructuredLogger.log_request raises instead of logging
    session,         \* self._session: NoSession or the number of a session
    sessionCount,    \* sessions created so far
    closedSessions,  \* the sessions that are closed
    cpc,             \* where each request() call is: idle, acquiring, transport, reading, returned, raised
    request_id,      \* local variable request_id of each request() call
    nextRequestId,   \* stands for the uuid4 source of generate_request_id
    transportCalls,  \* how many times each request() call issued session.request (history)
    sentTimeout,     \* the total timeout in force for the transport call of each request() (history)
    transportResult, \* how the transport call of each request() ended: none, ok, or the error (history)
    reqResult,       \* what the caller of each request() got
    logs,            \* the records handed to the logger, in order
    \* ---- AsyncAPIClient.close() ----
    closing,         \* the session whose close() is awaited by a close() call, or NoSession
    closes,          \* close() calls made so far (history)
    quiet            \* TRUE when a close() call has completed and no request() began since (history)

retryVars == <<max_retries, backoff, guarded, seconds, succeedsAt, rpc, attempt, delay,
               fElapsed, sleepLeft, fEvents, outcomes, sleeps, events, cancelled,
               result>>

limVars == <<max_requests, time_window, tokens, last_update, lockHolder, lockWaiters,
             now, tpc, wait_time, wakeAt, calledAt, started, admitted, late>>

clientVars == <<client_max_retries, rate_limit, enable_logging, timeout_seconds,
                timeoutArg, logger_raises, session, sessionCount, closedSessions, cpc,
                request_id, nextRequestId, transportCalls, sentTimeout,
                transportResult, reqResult, logs>>

modeVars == <<mode, lim, semValue, semWaiters, wpc, waited, strays>>

closeVars == <<closing, closes, quiet>>

vars == <<retryVars, limVars, clientVars, modeVars, closeVars>>

\* examples/with_rate_limiting.py: rate_limit=5 and range(10) requests at once.
BurstCap == 5
BurstTasks == 10

Tasks == 1..(IF NumTasks > BurstTasks THEN NumTasks ELSE BurstTasks)
NoTask == 0
NoLimit == 0
NoSession == 0

None == [kind |-> "none"]
Never == -1

(***************************************************************************)
(* Pure helpers.                                                           *)
(***************************************************************************)
RECURSIVE Pow2(_)
Pow2(n) == IF n <= 0 THEN 1 ELSE 2 * Pow2(n - 1)

\* retry.py 33-36: the delay computed at the top of iteration a.
BackoffDelay_Doubled(b, a) == IF b = "exponential" THEN 2 * a ELSE a + 1
BackoffDelay(b, a) == IF b = "exponential" THEN Pow2(a) ELSE a + 1

\* retry.py 41: the test that makes the except clause re-raise.
LastAttempt_OffByOne(a, m) == a = m
LastAttempt(a, m) == a = m - 1

\* What f does on invocation number i (1-based) after running e ticks: it
\* returns a value, raises an exception of its own, or is cancelled because
\* the deadline of wait_for hit.
FReturn(i, e) == [kind |-> "return", inv |-> i, at |-> e]
FRaise(i, e) == [kind |-> "Exception", inv |-> i, at |-> e]
FCancelled(i, e) == [kind |-> "cancelled", inv |-> i, at |-> e]

\* timeout.py 26-27: wait_for passes the function's own outcome through and
\* turns a deadline expiry into asyncio.TimeoutError.
TimeoutWrapper_Shielded(ev) ==
    IF ev.kind = "cancelled" THEN [ev EXCEPT !.kind = "return"] ELSE ev
TimeoutWrapper(ev) ==
    IF ev.kind = "cancelled" THEN [ev EXCEPT !.kind = "TimeoutError"] ELSE ev

\* retry.py 40: except Exception.  asyncio.TimeoutError and every exception f
\* raises are subclasses of Exception.
Caught_OnlyOwn(o) == o.kind = "Exception"
Caught_Everything(o) == o.kind \in {"Exception", "TimeoutError", "CancelledError"}
Caught(o) == o.kind \in {"Exception", "TimeoutError"}

(***************************************************************************)
(* The retry wrapper (retry.py 27-47).                                     *)
(***************************************************************************)
\* No AsyncAPIClient is involved in a run of the decorators or of the limiter alone.
\* timeout=None, the default of request().
NoTimeout == [given |-> FALSE, total |-> 0]

\* timeout=n.
Timeout(n) == [given |-> TRUE, total |-> n]

\* No close() call has been made.
CloseStart ==
    /\ closing = NoSession
    /\ closes = 0
    /\ quiet = FALSE

ClientUnused ==
    /\ CloseStart
    /\ client_max_retries = 3
    /\ rate_limit = NoLimit
    /\ enable_logging = FALSE
    /\ timeout_seconds = 1
    /\ timeoutArg = NoTimeout
    /\ logger_raises = FALSE
    /\ session = NoSession
    /\ sessionCount = 0
    /\ closedSessions = {}
    /\ cpc = [t \in Tasks |-> "idle"]
    /\ request_id = [t \in Tasks |-> 0]
    /\ nextRequestId = 1
    /\ transportCalls = [t \in Tasks |-> 0]
    /\ sentTimeout = [t \in Tasks |-> 0]
    /\ transportResult = [t \in Tasks |-> "none"]
    /\ reqResult = [t \in Tasks |-> None]
    /\ logs = <<>>

\* The limiter, where there is one, is a token bucket that was built without
\* error and whose acquire() is called directly.
ModesUnused ==
    /\ mode = "token_bucket"
    /\ lim = "built"
    /\ semValue = 0
    /\ semWaiters = <<>>
    /\ wpc = [t \in Tasks |-> "out"]
    /\ waited = {}
    /\ strays = 0

\* No RateLimiter is involved in a run of the decorators alone.
LimiterUnused ==
    /\ max_requests = 1
    /\ time_window = 1
    /\ tokens = 1
    /\ last_update = 0
    /\ lockHolder = NoTask
    /\ lockWaiters = <<>>
    /\ now = 0
    /\ tpc = [t \in Tasks |-> "idle"]
    /\ wait_time = [t \in Tasks |-> 0]
    /\ wakeAt = [t \in Tasks |-> 0]
    /\ calledAt = [t \in Tasks |-> 0]
    /\ started = 0
    /\ admitted = <<>>
    /\ late = FALSE

RetryStart ==
    /\ max_retries \in (-1)..MaxRetries
    /\ backoff \in {"exponential", "linear"}
    /\ guarded \in BOOLEAN
    /\ seconds \in 1..MaxSeconds
    /\ succeedsAt \in {Never} \cup (0..(MaxRetries - 1))
    /\ rpc = "idle"
    /\ attempt = 0
    /\ delay = 0
    /\ fElapsed = 0
    /\ sleepLeft = 0
    /\ fEvents = <<>>
    /\ outcomes = <<>>
    /\ sleeps = <<>>
    /\ events = <<>>
    /\ cancelled = "none"
    /\ result = None

RetryInit == RetryStart /\ LimiterUnused /\ ClientUnused /\ ModesUnused

\* for attempt in range(max_retries): one more iteration computes delay and
\* awaits func(*args, **kwargs); when the range is used up the wrapper falls
\* off the loop and returns None.
NextIteration(a) ==
    IF a < max_retries
      THEN /\ attempt' = a
           /\ delay' = BackoffDelay(backoff, a)
           /\ fElapsed' = 0
           /\ rpc' = "attempting"
           /\ UNCHANGED result
      ELSE /\ rpc' = "returned"
           /\ result' = [kind |-> "return", inv |-> 0, at |-> 0]
           /\ UNCHANGED <<attempt, delay, fElapsed>>

\* The caller awaits wrapper().
RetryCall ==
    /\ rpc = "idle"
    /\ NextIteration(0)
    /\ UNCHANGED <<max_retries, backoff, guarded, seconds, succeedsAt, sleepLeft,
                   fEvents, outcomes, sleeps, events, cancelled>>

\* retry.py 39: return await func(...)
OnReturn_ThenSleeps(o) ==
    /\ rpc' = "sleeping"
    /\ sleeps' = Append(sleeps, delay)
    /\ sleepLeft' = delay
    /\ result' = o
    /\ UNCHANGED events
OnReturn(o) ==
    /\ rpc' = "returned"
    /\ result' = o
    /\ UNCHANGED <<sleeps, sleepLeft, events>>

\* retry.py 45: print(f"Retry {attempt + 1}/{max_retries} in {delay}s{url_info}:
\* {type(e).__name__}"): what the line says.
RetryLine(o) ==
    [event |-> "retry", attempt |-> attempt + 1, max_retries |-> max_retries,
     delay |-> delay, cause |-> o.kind]

\* retry.py 40-47: the except clause.
OnException_RaisesFirst(o) ==
    IF LastAttempt(attempt, max_retries)
      THEN /\ rpc' = "raised"
           /\ result' = Append(outcomes, o)[1]
           /\ UNCHANGED <<sleeps, sleepLeft, events>>
      ELSE /\ rpc' = "sleeping"
           /\ events' = Append(events, RetryLine(o))
           /\ sleeps' = Append(sleeps, delay)
           /\ sleepLeft' = delay
           /\ UNCHANGED result
OnException(o) ==
    IF LastAttempt(attempt, max_retries)
      THEN /\ rpc' = "raised"
           /\ result' = o
           /\ UNCHANGED <<sleeps, sleepLeft, events>>
      ELSE /\ rpc' = "sleeping"
           /\ events' = Append(events, RetryLine(o))
           /\ sleeps' = Append(sleeps, delay)
           /\ sleepLeft' = delay
           /\ UNCHANGED result

\* An exception the except clause does not catch leaves the wrapper at once.
Propagate(o) ==
    /\ rpc' = "raised"
    /\ result' = o
    /\ UNCHANGED <<sleeps, sleepLeft, events>>

\* The invocation in flight ends with event ev of f; the retried function
\* delivers o to the retry wrapper.
Deliver(ev, o) ==
    /\ fEvents' = Append(fEvents, ev)
    /\ outcomes' = Append(outcomes, o)
    /\ IF o.kind = "return" THEN OnReturn(o)
       ELSE IF Caught(o) THEN OnException(o)
       ELSE Propagate(o)
    /\ UNCHANGED <<max_retries, backoff, guarded, seconds, succeedsAt, attempt,
                   delay, fElapsed>>

\* An invocation ends without the task being cancelled.
Complete(ev, o) == Deliver(ev, o) /\ UNCHANGED cancelled

\* timeout(seconds)(f) when guarded, f itself otherwise.
Delivered(ev) == IF guarded THEN TimeoutWrapper(ev) ELSE ev

\* f returns on the invocation it is set to succeed on ...
FuncReturns ==
    /\ rpc = "attempting"
    /\ Len(fEvents) = succeedsAt
    /\ Complete(FReturn(Len(fEvents) + 1, fElapsed),
                Delivered(FReturn(Len(fEvents) + 1, fElapsed)))

\* ... and raises on the others,
FuncRaises ==
    /\ rpc = "attempting"
    /\ Len(fEvents) # succeedsAt
    /\ Complete(FRaise(Len(fEvents) + 1, fElapsed),
                Delivered(FRaise(Len(fEvents) + 1, fElapsed)))

\* or is still running when the deadline of wait_for elapses and is cancelled.
DeadlineElapses ==
    /\ rpc = "attempting"
    /\ guarded
    /\ Len(fEvents) # succeedsAt
    /\ fElapsed >= seconds
    /\ Complete(FCancelled(Len(fEvents) + 1, fElapsed),
                Delivered(FCancelled(Len(fEvents) + 1, fElapsed)))

\* One tick passes while f runs.
TickAttempt ==
    /\ rpc = "attempting"
    /\ fElapsed < (IF guarded THEN seconds ELSE MaxDur)
    /\ fElapsed' = fElapsed + 1
    /\ UNCHANGED <<max_retries, backoff, guarded, seconds, succeedsAt, rpc, attempt,
                   delay, sleepLeft, fEvents, outcomes, sleeps, events, cancelled,
                   result>>

\* One tick passes during await asyncio.sleep(delay).
TickSleep ==
    /\ rpc = "sleeping"
    /\ sleepLeft > 0
    /\ sleepLeft' = sleepLeft - 1
    /\ UNCHANGED <<max_retries, backoff, guarded, seconds, succeedsAt, rpc, attempt,
                   delay, fElapsed, fEvents, outcomes, sleeps, events, cancelled,
                   result>>

\* The sleep is over: continue.
SleepDone_Early ==
    /\ rpc = "sleeping"
    /\ NextIteration(attempt + 1)
    /\ UNCHANGED <<max_retries, backoff, guarded, seconds, succeedsAt, sleepLeft,
                   fEvents, outcomes, sleeps, events, cancelled>>
SleepDone ==
    /\ rpc = "sleeping"
    /\ sleepLeft = 0
    /\ NextIteration(attempt + 1)
    /\ UNCHANGED <<max_retries, backoff, guarded, seconds, succeedsAt, sleepLeft,
                   fEvents, outcomes, sleeps, events, cancelled>>

RetryNext ==
    \/ RetryCall /\ UNCHANGED <<limVars, clientVars, modeVars, closeVars>>
    \/ FuncReturns /\ UNCHANGED <<limVars, clientVars, modeVars, closeVars>>
    \/ FuncRaises /\ UNCHANGED <<limVars, clientVars, modeVars, closeVars>>
    \/ DeadlineElapses /\ UNCHANGED <<limVars, clientVars, modeVars, closeVars>>
    \/ TickAttempt /\ UNCHANGED <<limVars, clientVars, modeVars, closeVars>>
    \/ TickSleep /\ UNCHANGED <<limVars, clientVars, modeVars, closeVars>>
    \/ SleepDone /\ UNCHANGED <<limVars, clientVars, modeVars, closeVars>>

SpecRetry == RetryInit /\ [][RetryNext]_vars

(***************************************************************************)
(* Cancellation of the task that awaits the retry wrapper.                 *)
(***************************************************************************)
\* What f does when the CancelledError of its task reaches it: it lets it out.
FTaskCancelled(i, e) == [kind |-> "CancelledError", inv |-> i, at |-> e]

\* task.cancel() while an invocation is in flight: CancelledError is thrown
\* into f at its await (through wait_for when guarded) and comes back to the
\* retry wrapper.
CancelAttempt ==
    /\ rpc = "attempting"
    /\ cancelled = "none"
    /\ cancelled' = "attempt"
    /\ Deliver(FTaskCancelled(Len(fEvents) + 1, fElapsed),
               Delivered(FTaskCancelled(Len(fEvents) + 1, fElapsed)))

\* task.cancel() during await asyncio.sleep(delay) of the except clause:
\* CancelledError is raised there, inside the handler, and leaves the wrapper.
CancelSleep ==
    /\ rpc = "sleeping"
    /\ cancelled = "none"
    /\ cancelled' = "sleep"
    /\ rpc' = "raised"
    /\ result' = [kind |-> "CancelledError", inv |-> 0, at |-> delay - sleepLeft]
    /\ UNCHANGED <<max_retries, backoff, guarded, seconds, succeedsAt, attempt, delay,
                   fElapsed, sleepLeft, fEvents, outcomes, sleeps, events>>

CancelNext ==
    \/ RetryNext
    \/ CancelAttempt /\ UNCHANGED <<limVars, clientVars, modeVars, closeVars>>
    \/ CancelSleep /\ UNCHANGED <<limVars, clientVars, modeVars, closeVars>>

SpecCancel == RetryInit /\ [][CancelNext]_vars


(***************************************************************************)
(* The token-bucket RateLimiter (rate_limit.py 24-71).                     *)
(*                                                                         *)
(* time_window is a multiple of max_requests ticks and tokens is counted   *)
(* in units of 1/time_window token, so that the refill                     *)
(* elapsed * (max_requests / time_window) and the wait                     *)
(* (1 - tokens) * (time_window / max_requests) are whole numbers.          *)
(***************************************************************************)
Min(a, b) == IF a <= b THEN a ELSE b

\* One token, in the unit of the variable tokens.
One == time_window

\* No retry wrapper is involved in a run of the limiter alone.
RetryUnused ==
    /\ max_retries = 0
    /\ backoff = "exponential"
    /\ guarded = FALSE
    /\ seconds = 1
    /\ succeedsAt = Never
    /\ rpc = "idle"
    /\ attempt = 0
    /\ delay = 0
    /\ fElapsed = 0
    /\ sleepLeft = 0
    /\ fEvents = <<>>
    /\ outcomes = <<>>
    /\ sleeps = <<>>
    /\ events = <<>>
    /\ cancelled = "none"
    /\ result = None

\* rate_limit.py 24-47: RateLimiter(max_requests, time_window), token_bucket mode.
LimiterStart ==
    /\ max_requests \in 1..MaxCap
    /\ time_window \in {max_requests * k : k \in 1..MaxSlot}
    /\ tokens = max_requests * One
    /\ last_update = 0
    /\ lockHolder = NoTask
    /\ lockWaiters = <<>>
    /\ now = 0
    /\ tpc = [t \in Tasks |-> "idle"]
    /\ wait_time = [t \in Tasks |-> 0]
    /\ wakeAt = [t \in Tasks |-> 0]
    /\ calledAt = [t \in Tasks |-> 0]
    /\ started = 0
    /\ admitted = <<>>
    /\ late = FALSE

LimiterInit == LimiterStart /\ RetryUnused /\ ClientUnused /\ ModesUnused

\* rate_limit.py 59-62: the refill.
Refill_NoCap(tok, elapsed) == tok + elapsed * max_requests
Refill(tok, elapsed) == Min(max_requests * One, tok + elapsed * max_requests)

\* rate_limit.py 67: wait_time, in ticks.
WaitTime_FullWindow(tok) == ((One - tok) * time_window) \div One
WaitTime(tok) == ((One - tok) * time_window) \div (max_requests * One)

\* The record of an acquire() call that returned.
Admission(t, c, slept) == [task |-> t, called |-> c, slept |-> slept, at |-> now]

\* rate_limit.py 54-71: the body of `async with self.lock` up to its first
\* await, run by task t once it has the lock.  With a token in the bucket it
\* consumes it and leaves the block, releasing the lock; otherwise it starts
\* asyncio.sleep(wait_time) inside the block, the lock still held.  With
\* max_requests = 0 the division of line 67 raises ZeroDivisionError, which
\* leaves the block (releasing the lock) and acquire().  c is the time at
\* which t called acquire().
RefillAndDecide_Unlocked(t, c) ==
    LET refilled == Refill(tokens, now - last_update) IN
    /\ last_update' = now
    /\ IF refilled < One /\ max_requests = 0
         THEN /\ tokens' = refilled
              /\ tpc' = [tpc EXCEPT ![t] = "raised"]
              /\ lockHolder' = NoTask
              /\ UNCHANGED <<wait_time, wakeAt, admitted>>
       ELSE IF refilled < One
         THEN /\ tokens' = refilled
              /\ tpc' = [tpc EXCEPT ![t] = "sleeping"]
              /\ wait_time' = [wait_time EXCEPT ![t] = WaitTime(refilled)]
              /\ wakeAt' = [wakeAt EXCEPT ![t] = now + WaitTime(refilled)]
              /\ lockHolder' = NoTask
              /\ UNCHANGED admitted
         ELSE /\ tokens' = refilled - One
              /\ tpc' = [tpc EXCEPT ![t] = "done"]
              /\ lockHolder' = NoTask
              /\ admitted' = Append(admitted, Admission(t, c, 0))
              /\ UNCHANGED <<wait_time, wakeAt>>
RefillAndDecide(t, c) ==
    LET refilled == Refill(tokens, now - last_update) IN
    /\ last_update' = now
    /\ IF refilled < One /\ max_requests = 0
         THEN /\ tokens' = refilled
              /\ tpc' = [tpc EXCEPT ![t] = "raised"]
              /\ lockHolder' = NoTask
              /\ UNCHANGED <<wait_time, wakeAt, admitted>>
       ELSE IF refilled < One
         THEN /\ tokens' = refilled
              /\ tpc' = [tpc EXCEPT ![t] = "sleeping"]
              /\ wait_time' = [wait_time EXCEPT ![t] = WaitTime(refilled)]
              /\ wakeAt' = [wakeAt EXCEPT ![t] = now + WaitTime(refilled)]
              /\ lockHolder' = t
              /\ UNCHANGED admitted
         ELSE /\ tokens' = refilled - One
              /\ tpc' = [tpc EXCEPT ![t] = "done"]
              /\ lockHolder' = NoTask
              /\ admitted' = Append(admitted, Admission(t, c, 0))
              /\ UNCHANGED <<wait_time, wakeAt>>

\* asyncio.Lock.acquire takes a free lock that nobody queues for at once.
LockFree == lockHolder = NoTask /\ lockWaiters = <<>>

\* Task t calls acquire().  Tasks are interchangeable, so they call in the
\* order of their numbers.
CallAcquire(t) ==
    /\ tpc[t] = "idle"
    /\ t = started + 1
    /\ started' = started + 1
    /\ calledAt' = [calledAt EXCEPT ![t] = now]
    /\ IF LockFree
         THEN /\ RefillAndDecide(t, now)
              /\ UNCHANGED lockWaiters
         ELSE /\ lockWaiters' = Append(lockWaiters, t)
              /\ tpc' = [tpc EXCEPT ![t] = "lock_wait"]
              /\ UNCHANGED <<tokens, last_update, lockHolder, wait_time, wakeAt, admitted>>
    /\ UNCHANGED <<max_requests, time_window, now, late>>

\* The lock was released and t is the first in its queue: t enters the block.
LockGranted(t) ==
    /\ tpc[t] = "lock_wait"
    /\ lockHolder = NoTask
    /\ lockWaiters # <<>> /\ Head(lockWaiters) = t
    /\ lockWaiters' = Tail(lockWaiters)
    /\ RefillAndDecide(t, calledAt[t])
    /\ UNCHANGED <<max_requests, time_window, now, calledAt, started, late>>

\* rate_limit.py 68-69: the sleep of t is over; it sets tokens to 0, leaves the
\* block (releasing the lock) and acquire() returns.
WakeUp_KeepsLock(t) ==
    /\ tpc[t] = "sleeping"
    /\ now >= wakeAt[t]
    /\ tokens' = 0
    /\ tpc' = [tpc EXCEPT ![t] = "done"]
    /\ admitted' = Append(admitted, Admission(t, calledAt[t], wait_time[t]))
    /\ UNCHANGED <<max_requests, time_window, last_update, lockHolder, lockWaiters, now,
                   wait_time, wakeAt, calledAt, started, late>>
WakeUp(t) ==
    /\ tpc[t] = "sleeping"
    /\ now >= wakeAt[t]
    /\ tokens' = 0
    /\ lockHolder' = NoTask
    /\ tpc' = [tpc EXCEPT ![t] = "done"]
    /\ admitted' = Append(admitted, Admission(t, calledAt[t], wait_time[t]))
    /\ UNCHANGED <<max_requests, time_window, last_update, lockWaiters, now, wait_time,
                   wakeAt, calledAt, started, late>>

\* Some task could run at the current instant.
Ready ==
    \E t \in Tasks :
        \/ tpc[t] = "sleeping" /\ now >= wakeAt[t]
        \/ tpc[t] = "lock_wait" /\ lockHolder = NoTask /\ Head(lockWaiters) = t

\* The clock advances by one tick.
Advance ==
    /\ now' = now + 1
    /\ late' = (late \/ Ready)
    /\ UNCHANGED <<max_requests, time_window, tokens, last_update, lockHolder,
                   lockWaiters, tpc, wait_time, wakeAt, calledAt, started, admitted>>

Tick == now < MaxTime /\ Advance

LimiterNext ==
    \/ \E t \in 1..NumTasks : CallAcquire(t) /\ UNCHANGED <<retryVars, clientVars, modeVars, closeVars>>
    \/ \E t \in Tasks : LockGranted(t) /\ UNCHANGED <<retryVars, clientVars, modeVars, closeVars>>
    \/ \E t \in Tasks : WakeUp(t) /\ UNCHANGED <<retryVars, clientVars, modeVars, closeVars>>
    \/ Tick /\ UNCHANGED <<retryVars, clientVars, modeVars, closeVars>>

SpecLimiter == LimiterInit /\ [][LimiterNext]_vars

(***************************************************************************)
(* The token bucket with time that keeps passing: a finite number of tasks *)
(* call acquire() at instants up to MaxLiveTime, and the clock goes on     *)
(* for as long as a task is asleep.                                        *)
(***************************************************************************)
Sleeper == \E t \in Tasks : tpc[t] = "sleeping" /\ now < wakeAt[t]

LiveTick == (now < MaxLiveTime \/ Sleeper) /\ Advance

LiveNext ==
    \/ \E t \in 1..NumLive : CallAcquire(t) /\ UNCHANGED <<retryVars, clientVars, modeVars, closeVars>>
    \/ \E t \in Tasks : LockGranted(t) /\ UNCHANGED <<retryVars, clientVars, modeVars, closeVars>>
    \/ \E t \in Tasks : WakeUp(t) /\ UNCHANGED <<retryVars, clientVars, modeVars, closeVars>>
    \/ LiveTick /\ UNCHANGED <<retryVars, clientVars, modeVars, closeVars>>

\* The event loop resumes a task whose lock or sleep is ready, and time passes.
LiveFairness ==
    /\ \A t \in Tasks : WF_vars(LockGranted(t) /\ UNCHANGED <<retryVars, clientVars, modeVars, closeVars>>)
    /\ \A t \in Tasks : WF_vars(WakeUp(t) /\ UNCHANGED <<retryVars, clientVars, modeVars, closeVars>>)
    /\ WF_vars(LiveTick /\ UNCHANGED <<retryVars, clientVars, modeVars, closeVars>>)

SpecLive == LimiterInit /\ [][LiveNext]_vars /\ LiveFairness

(***************************************************************************)
(* Cancellation of a task that is suspended inside acquire().              *)
(***************************************************************************)
\* The sequence q without the task t.
Without(q, t) == SelectSeq(q, LAMBDA u : u # t)

\* rate_limit.py 54: t is cancelled while it waits for self.lock.
\* asyncio.Lock.acquire takes t out of the queue and raises CancelledError;
\* the block is never entered.
CancelLockWait(t) ==
    /\ tpc[t] = "lock_wait"
    /\ lockWaiters' = Without(lockWaiters, t)
    /\ tpc' = [tpc EXCEPT ![t] = "cancelled"]
    /\ UNCHANGED <<max_requests, time_window, tokens, last_update, lockHolder, now,
                   wait_time, wakeAt, calledAt, started, admitted, late>>

\* rate_limit.py 68: t is cancelled during await asyncio.sleep(wait_time).
\* CancelledError leaves the `async with self.lock` block, which releases the
\* lock; line 69 is not run.
CancelTokenWait_KeepsLock(t) ==
    /\ tpc[t] = "sleeping"
    /\ tpc' = [tpc EXCEPT ![t] = "cancelled"]
    /\ UNCHANGED <<max_requests, time_window, tokens, last_update, lockHolder,
                   lockWaiters, now, wait_time, wakeAt, calledAt, started, admitted,
                   late>>
CancelTokenWait(t) ==
    /\ tpc[t] = "sleeping"
    /\ lockHolder' = NoTask
    /\ tpc' = [tpc EXCEPT ![t] = "cancelled"]
    /\ UNCHANGED <<max_requests, time_window, tokens, last_update, lockWaiters, now,
                   wait_time, wakeAt, calledAt, started, admitted, late>>

LiveCancelNext ==
    \/ \E t \in 1..NumCancel : CallAcquire(t) /\ UNCHANGED <<retryVars, clientVars, modeVars, closeVars>>
    \/ \E t \in Tasks : LockGranted(t) /\ UNCHANGED <<retryVars, clientVars, modeVars, closeVars>>
    \/ \E t \in Tasks : WakeUp(t) /\ UNCHANGED <<retryVars, clientVars, modeVars, closeVars>>
    \/ LiveTick /\ UNCHANGED <<retryVars, clientVars, modeVars, closeVars>>
    \/ \E t \in Tasks : CancelLockWait(t) /\ UNCHANGED <<retryVars, clientVars, modeVars, closeVars>>
    \/ \E t \in Tasks : CancelTokenWait(t) /\ UNCHANGED <<retryVars, clientVars, modeVars, closeVars>>

SpecLiveCancel == LimiterInit /\ [][LiveCancelNext]_vars /\ LiveFairness


(***************************************************************************)
(* The run of examples/with_rate_limiting.py: a burst of BurstTasks        *)
(* requests gathered at t = 0 on a fresh limiter, with work that costs no  *)
(* time: the clock moves only when every task has called acquire() and no  *)
(* task is ready to run.                                                   *)
(***************************************************************************)
BurstStart ==
    /\ max_requests \in 1..BurstCap
    /\ time_window \in {max_requests * k : k \in 1..MaxSlot}
    /\ tokens = max_requests * One
    /\ last_update = 0
    /\ lockHolder = NoTask
    /\ lockWaiters = <<>>
    /\ now = 0
    /\ tpc = [t \in Tasks |-> "idle"]
    /\ wait_time = [t \in Tasks |-> 0]
    /\ wakeAt = [t \in Tasks |-> 0]
    /\ calledAt = [t \in Tasks |-> 0]
    /\ started = 0
    /\ admitted = <<>>
    /\ late = FALSE

BurstInit == BurstStart /\ RetryUnused /\ ClientUnused /\ ModesUnused

BurstCall(t) == t <= BurstTasks /\ CallAcquire(t)

BurstTick ==
    /\ started = BurstTasks
    /\ \E t \in Tasks : tpc[t] \in {"lock_wait", "sleeping"}
    /\ ~Ready
    /\ Advance

BurstNext ==
    \/ \E t \in Tasks : BurstCall(t) /\ UNCHANGED <<retryVars, clientVars, modeVars, closeVars>>
    \/ \E t \in Tasks : LockGranted(t) /\ UNCHANGED <<retryVars, clientVars, modeVars, closeVars>>
    \/ \E t \in Tasks : WakeUp(t) /\ UNCHANGED <<retryVars, clientVars, modeVars, closeVars>>
    \/ BurstTick /\ UNCHANGED <<retryVars, clientVars, modeVars, closeVars>>

SpecBurst == BurstInit /\ [][BurstNext]_vars

(***************************************************************************)
(* RateLimiter in either mode, built with any max_requests and used as     *)
(* `async with limiter:` (rate_limit.py 24-86).                            *)
(***************************************************************************)
Users == 1..NumUsers

Abs(n) == IF n < 0 THEN -n ELSE n

\* The arguments of the RateLimiter(...) call that is about to be made.
ModesStart ==
    /\ mode \in {"token_bucket", "semaphore"}
    /\ max_requests \in (-1)..MaxCap
    /\ time_window = IF mode = "semaphore" \/ max_requests = 0 THEN 1 ELSE Abs(max_requests)
    /\ lim = "none"
    /\ semValue = 0
    /\ semWaiters = <<>>
    /\ wpc = [t \in Tasks |-> "out"]
    /\ waited = {}
    /\ strays = 0
    /\ tokens = 0
    /\ last_update = 0
    /\ lockHolder = NoTask
    /\ lockWaiters = <<>>
    /\ now = 0
    /\ tpc = [t \in Tasks |-> "idle"]
    /\ wait_time = [t \in Tasks |-> 0]
    /\ wakeAt = [t \in Tasks |-> 0]
    /\ calledAt = [t \in Tasks |-> 0]
    /\ started = 0
    /\ admitted = <<>>
    /\ late = FALSE

ModesInit == ModesStart /\ RetryUnused /\ ClientUnused

\* rate_limit.py 24-47: RateLimiter.__init__.  Nothing in it looks at the sign
\* of max_requests; asyncio.Semaphore(value) raises ValueError for value < 0.
Construct ==
    /\ lim = "none"
    /\ IF mode = "semaphore"
         THEN /\ lim' = IF max_requests < 0 THEN "ValueError" ELSE "built"
              /\ semValue' = IF max_requests < 0 THEN semValue ELSE max_requests
              /\ UNCHANGED <<tokens, last_update>>
         ELSE /\ lim' = "built"
              /\ tokens' = max_requests * One
              /\ last_update' = now
              /\ UNCHANGED semValue
    /\ UNCHANGED <<mode, semWaiters, wpc, waited, strays>>
    /\ UNCHANGED <<max_requests, time_window, lockHolder, lockWaiters, now, tpc,
                   wait_time, wakeAt, calledAt, started, admitted, late>>

\* asyncio.Semaphore.locked(): acquire() blocks when the counter is zero or
\* other tasks are already waiting.
SemLocked_Never == FALSE
SemLocked == semValue = 0 \/ semWaiters # <<>>

\* Where task t is in its `async with` once acquire() got to tpc value p.
Entered(p) ==
    IF p = "done" THEN "inside" ELSE IF p = "raised" THEN "raised" ELSE "entering"

\* rate_limit.py 78-81 and 49-52: __aenter__ awaits acquire(); in semaphore
\* mode that is self.semaphore.acquire().
EnterSemaphore(t) ==
    /\ mode = "semaphore"
    /\ started' = started + 1
    /\ calledAt' = [calledAt EXCEPT ![t] = now]
    /\ IF SemLocked
         THEN /\ semWaiters' = Append(semWaiters, t)
              /\ wpc' = [wpc EXCEPT ![t] = "entering"]
              /\ waited' = waited \cup {t}
              /\ UNCHANGED semValue
         ELSE /\ semValue' = semValue - 1
              /\ wpc' = [wpc EXCEPT ![t] = "inside"]
              /\ UNCHANGED <<semWaiters, waited>>
    /\ UNCHANGED <<mode, lim, strays>>
    /\ UNCHANGED <<max_requests, time_window, tokens, last_update, lockHolder,
                   lockWaiters, now, tpc, wait_time, wakeAt, admitted, late>>

\* rate_limit.py 78-81 and 54-71: __aenter__ in token_bucket mode.
EnterTokenBucket(t) ==
    /\ mode = "token_bucket"
    /\ CallAcquire(t)
    /\ wpc' = [wpc EXCEPT ![t] = Entered(tpc'[t])]
    /\ waited' = IF tpc'[t] \in {"lock_wait", "sleeping"} THEN waited \cup {t} ELSE waited
    /\ UNCHANGED <<mode, lim, semValue, semWaiters, strays>>

\* Task t reaches `async with limiter:`.  Tasks are interchangeable, so they
\* arrive in the order of their numbers.
Enter(t) ==
    /\ lim = "built"
    /\ wpc[t] = "out"
    /\ t = started + 1
    /\ EnterSemaphore(t) \/ EnterTokenBucket(t)

\* A slot is free and t is the first of the blocked tasks: its
\* self.semaphore.acquire() returns and t enters the block.
SemGranted(t) ==
    /\ mode = "semaphore"
    /\ wpc[t] = "entering"
    /\ semWaiters # <<>> /\ Head(semWaiters) = t
    /\ semValue > 0
    /\ semValue' = semValue - 1
    /\ semWaiters' = Tail(semWaiters)
    /\ wpc' = [wpc EXCEPT ![t] = "inside"]
    /\ UNCHANGED <<mode, lim, waited, strays, limVars>>

\* The lock of the token bucket passes to t, which is inside __aenter__.
EnterLockGranted(t) ==
    /\ mode = "token_bucket"
    /\ wpc[t] = "entering"
    /\ LockGranted(t)
    /\ wpc' = [wpc EXCEPT ![t] = Entered(tpc'[t])]
    /\ UNCHANGED <<mode, lim, semValue, semWaiters, waited, strays>>

\* The rate-limit wait of t, which is inside __aenter__, is over.
EnterWakeUp(t) ==
    /\ mode = "token_bucket"
    /\ wpc[t] = "entering"
    /\ WakeUp(t)
    /\ wpc' = [wpc EXCEPT ![t] = "inside"]
    /\ UNCHANGED <<mode, lim, semValue, semWaiters, waited, strays>>

\* rate_limit.py 73-76: release().
Release ==
    semValue' = IF mode = "semaphore" THEN semValue + 1 ELSE semValue

\* rate_limit.py 83-86: the block of t ends and __aexit__ calls release().
Exit(t) ==
    /\ wpc[t] = "inside"
    /\ Release
    /\ wpc' = [wpc EXCEPT ![t] = "exited"]
    /\ UNCHANGED <<mode, lim, semWaiters, waited, strays, limVars>>

\* release() is called by code that is not leaving an `async with` block.
StrayRelease ==
    /\ lim = "built"
    /\ strays < MaxStray
    /\ Release
    /\ strays' = strays + 1
    /\ UNCHANGED <<mode, lim, semWaiters, wpc, waited, limVars>>

ModesTick ==
    /\ mode = "token_bucket"
    /\ lim = "built"
    /\ now < MaxModeTime
    /\ Advance
    /\ UNCHANGED modeVars

ModesNext ==
    \/ Construct /\ UNCHANGED <<retryVars, clientVars, closeVars>>
    \/ \E t \in Users : Enter(t) /\ UNCHANGED <<retryVars, clientVars, closeVars>>
    \/ \E t \in Users : SemGranted(t) /\ UNCHANGED <<retryVars, clientVars, closeVars>>
    \/ \E t \in Users : EnterLockGranted(t) /\ UNCHANGED <<retryVars, clientVars, closeVars>>
    \/ \E t \in Users : EnterWakeUp(t) /\ UNCHANGED <<retryVars, clientVars, closeVars>>
    \/ \E t \in Users : Exit(t) /\ UNCHANGED <<retryVars, clientVars, closeVars>>
    \/ StrayRelease /\ UNCHANGED <<retryVars, clientVars, closeVars>>
    \/ ModesTick /\ UNCHANGED <<retryVars, clientVars, closeVars>>

\* The event loop runs a task whose semaphore.acquire() can return.
ModesFairness ==
    \A t \in Users : WF_vars(SemGranted(t) /\ UNCHANGED <<retryVars, clientVars, closeVars>>)

SpecModes == ModesInit /\ [][ModesNext]_vars /\ ModesFairness


(***************************************************************************)
(* AsyncAPIClient (client.py 38-195).                                      *)
(***************************************************************************)
ClientTasks == 1..NumClients

\* client.py 38-74: __init__.  `if rate_limit` makes a RateLimiter with
\* time_window=1.0 for a non-zero rate_limit and none for None (or 0).  A tick
\* of a client run is 1/rate_limit second.  The timeouts are positive and
\* the logger works.
ClientStart ==
    /\ client_max_retries \in 1..MaxRetries
    /\ rate_limit \in {NoLimit} \cup (1..MaxRateLimit)
    /\ enable_logging \in BOOLEAN
    /\ timeout_seconds = 1
    /\ timeoutArg = NoTimeout
    /\ logger_raises = FALSE
    /\ session = NoSession
    /\ sessionCount = 0
    /\ closedSessions = {}
    /\ cpc = [t \in Tasks |-> "idle"]
    /\ request_id = [t \in Tasks |-> 0]
    /\ nextRequestId = 1
    /\ transportCalls = [t \in Tasks |-> 0]
    /\ sentTimeout = [t \in Tasks |-> 0]
    /\ transportResult = [t \in Tasks |-> "none"]
    /\ reqResult = [t \in Tasks |-> None]
    /\ logs = <<>>
    /\ IF rate_limit = NoLimit
         THEN LimiterUnused
         ELSE /\ LimiterStart
              /\ max_requests = rate_limit
              /\ time_window = rate_limit

ClientInit == ClientStart /\ CloseStart /\ RetryUnused /\ ModesUnused

\* str(e) of the exceptions the transport raises: asyncio.TimeoutError() has
\* no message.
Str(e) == IF e = "TimeoutError" THEN "" ELSE e

\* logging.py 57-97: log_request.  NoStatus stands for status=None, the empty
\* string for error=None as well: both are falsy in `if error`.
NoStatus == 0
LogRequest(rid, status, error) ==
    [event |-> "api_request",
     request_id |-> rid,
     fields |-> (IF status # NoStatus THEN {"status"} ELSE {})
                  \cup {"latency_ms"}
                  \cup (IF error # "" THEN {"error"} ELSE {}),
     status |-> status,
     error |-> error,
     level |-> IF error # "" THEN "error" ELSE "info"]

\* client.py 147 and 80-82: request_timeout is ClientTimeout(total=timeout)
\* `if timeout`, else None, which leaves the ClientTimeout(total=
\* self.timeout_seconds) of the session in force.
RequestTimeout ==
    IF timeoutArg.given /\ timeoutArg.total # 0 THEN timeoutArg.total ELSE timeout_seconds

\* client.py 76-83: _get_session, then client.py 144-160: session.request is
\* issued and the call waits for the response.
SendRequest(t) ==
    /\ IF session = NoSession \/ session \in closedSessions
         THEN /\ sessionCount' = sessionCount + 1
              /\ session' = sessionCount + 1
         ELSE UNCHANGED <<session, sessionCount>>
    /\ transportCalls' = [transportCalls EXCEPT ![t] = @ + 1]
    /\ sentTimeout' = [sentTimeout EXCEPT ![t] = RequestTimeout]
    /\ cpc' = [cpc EXCEPT ![t] = "transport"]

\* What follows acquire() in request(): nothing yet while acquire() is
\* suspended, the transport call once it has returned.
AfterAcquire_Eager(t) == SendRequest(t)
AfterAcquire(t) ==
    IF tpc'[t] = "done"
      THEN SendRequest(t)
      ELSE /\ cpc' = [cpc EXCEPT ![t] = "acquiring"]
           /\ UNCHANGED <<session, sessionCount, transportCalls, sentTimeout>>

\* client.py 133-160: request() up to its first suspension.  Tasks are
\* interchangeable, so they call in the order of their numbers.
Request(t) ==
    /\ cpc[t] = "idle"
    /\ t = nextRequestId
    /\ quiet' = FALSE
    /\ request_id' = [request_id EXCEPT ![t] = nextRequestId]
    /\ nextRequestId' = nextRequestId + 1
    /\ IF rate_limit = NoLimit
         THEN /\ SendRequest(t)
              /\ UNCHANGED limVars
         ELSE /\ CallAcquire(t)
              /\ AfterAcquire(t)
    /\ UNCHANGED <<client_max_retries, rate_limit, enable_logging, timeout_seconds,
                   timeoutArg, logger_raises, closedSessions, transportResult,
                   reqResult, logs>>

\* The request() call of t gets the lock of the limiter.
RequestLockGranted(t) ==
    /\ cpc[t] = "acquiring"
    /\ LockGranted(t)
    /\ AfterAcquire(t)
    /\ UNCHANGED <<client_max_retries, rate_limit, enable_logging, timeout_seconds,
                   timeoutArg, logger_raises, closedSessions, request_id,
                   nextRequestId, transportResult, reqResult, logs>>

\* The rate-limit sleep of the request() call of t is over.
RequestWakeUp(t) ==
    /\ cpc[t] = "acquiring"
    /\ WakeUp(t)
    /\ AfterAcquire(t)
    /\ UNCHANGED <<client_max_retries, rate_limit, enable_logging, timeout_seconds,
                   timeoutArg, logger_raises, closedSessions, request_id,
                   nextRequestId, transportResult, reqResult, logs>>

\* The logger is called and raises.
LogRaises == enable_logging /\ logger_raises

\* client.py 184-195: except Exception as e: log the error, then raise.  An
\* exception of log_request, raised inside the handler, takes the place of e.
RequestFails(t, e) ==
    /\ logs' = IF enable_logging /\ ~logger_raises
                 THEN Append(logs, LogRequest(request_id[t], NoStatus, Str(e)))
                 ELSE logs
    /\ cpc' = [cpc EXCEPT ![t] = "raised"]
    /\ reqResult' = [reqResult EXCEPT ![t] = [kind |-> IF LogRaises THEN "LogError" ELSE e]]

\* client.py 154-162: the response arrives; raise_for_status passes for a
\* success status, and the body is read next.
ResponseOk(t) ==
    /\ cpc[t] = "transport"
    /\ cpc' = [cpc EXCEPT ![t] = "reading"]
    /\ UNCHANGED <<client_max_retries, rate_limit, enable_logging, timeout_seconds,
                   timeoutArg, logger_raises, session, sessionCount, closedSessions,
                   request_id, nextRequestId, transportCalls, sentTimeout,
                   transportResult, reqResult, logs>>
    /\ UNCHANGED limVars

\* client.py 154-162: the transport call fails: an HTTP error status makes
\* raise_for_status raise, or the connection fails, or aiohttp times out.
TransportFails(t, e) ==
    /\ cpc[t] = "transport"
    /\ transportResult' = [transportResult EXCEPT ![t] = e]
    /\ RequestFails(t, e)
    /\ UNCHANGED <<client_max_retries, rate_limit, enable_logging, timeout_seconds,
                   timeoutArg, logger_raises, session, sessionCount, closedSessions,
                   request_id, nextRequestId, transportCalls, sentTimeout>>
    /\ UNCHANGED limVars

\* client.py 164-182: the body is read, the success is logged, data is
\* returned.  The log_request call of line 174 is inside the try block, so an
\* exception of it goes to the except clause of line 184.
BodyRead(t) ==
    /\ cpc[t] = "reading"
    /\ transportResult' = [transportResult EXCEPT ![t] = "ok"]
    /\ IF LogRaises
         THEN RequestFails(t, "LogError")
         ELSE /\ logs' = IF enable_logging
                           THEN Append(logs, LogRequest(request_id[t], 200, ""))
                           ELSE logs
              /\ cpc' = [cpc EXCEPT ![t] = "returned"]
              /\ reqResult' = [reqResult EXCEPT ![t] = [kind |-> "return"]]
    /\ UNCHANGED <<client_max_retries, rate_limit, enable_logging, timeout_seconds,
                   timeoutArg, logger_raises, session, sessionCount, closedSessions,
                   request_id, nextRequestId, transportCalls, sentTimeout>>
    /\ UNCHANGED limVars

\* client.py 165-169: reading the body fails.
BodyFails(t, e) ==
    /\ cpc[t] = "reading"
    /\ transportResult' = [transportResult EXCEPT ![t] = e]
    /\ RequestFails(t, e)
    /\ UNCHANGED <<client_max_retries, rate_limit, enable_logging, timeout_seconds,
                   timeoutArg, logger_raises, session, sessionCount, closedSessions,
                   request_id, nextRequestId, transportCalls, sentTimeout>>
    /\ UNCHANGED limVars

\* The clock matters to a client only through its rate limiter.
ClientTick == rate_limit # NoLimit /\ now < MaxClientTime /\ Advance

TransportErrors == {"ClientResponseError", "ClientConnectionError", "TimeoutError"}
BodyErrors == {"ClientPayloadError", "TimeoutError"}

ClientNext ==
    \/ \E t \in ClientTasks : Request(t) /\ UNCHANGED <<retryVars, modeVars, closing, closes>>
    \/ \E t \in ClientTasks : RequestLockGranted(t) /\ UNCHANGED <<retryVars, modeVars, closeVars>>
    \/ \E t \in ClientTasks : RequestWakeUp(t) /\ UNCHANGED <<retryVars, modeVars, closeVars>>
    \/ \E t \in ClientTasks : ResponseOk(t) /\ UNCHANGED <<retryVars, modeVars, closeVars>>
    \/ \E t \in ClientTasks, e \in TransportErrors : TransportFails(t, e) /\ UNCHANGED <<retryVars, modeVars, closeVars>>
    \/ \E t \in ClientTasks : BodyRead(t) /\ UNCHANGED <<retryVars, modeVars, closeVars>>
    \/ \E t \in ClientTasks, e \in BodyErrors : BodyFails(t, e) /\ UNCHANGED <<retryVars, modeVars, closeVars>>
    \/ ClientTick /\ UNCHANGED <<retryVars, clientVars, modeVars, closeVars>>

SpecClient == ClientInit /\ [][ClientNext]_vars

(***************************************************************************)
(* AsyncAPIClient with timeouts of any sign and a logger that may raise.   *)
(***************************************************************************)
\* The values given for a timeout.
TimeoutValues == {-1, 0, 1}

\* client.py 38-74 and 108-131: the arguments of AsyncAPIClient(...) and of
\* its request() calls.  Either the client is built with some timeout and
\* the calls pass none, or the client has a positive timeout and the calls
\* pass one.
RequestStart ==
    /\ client_max_retries = 3
    /\ rate_limit \in {NoLimit, 1}
    /\ enable_logging \in BOOLEAN
    /\ logger_raises \in (IF enable_logging THEN BOOLEAN ELSE {FALSE})
    /\ timeout_seconds \in TimeoutValues
    /\ timeoutArg \in {NoTimeout} \cup
                      (IF timeout_seconds > 0 THEN {Timeout(n) : n \in TimeoutValues} ELSE {})
    /\ session = NoSession
    /\ sessionCount = 0
    /\ closedSessions = {}
    /\ cpc = [t \in Tasks |-> "idle"]
    /\ request_id = [t \in Tasks |-> 0]
    /\ nextRequestId = 1
    /\ transportCalls = [t \in Tasks |-> 0]
    /\ sentTimeout = [t \in Tasks |-> 0]
    /\ transportResult = [t \in Tasks |-> "none"]
    /\ reqResult = [t \in Tasks |-> None]
    /\ logs = <<>>
    /\ IF rate_limit = NoLimit
         THEN LimiterUnused
         ELSE /\ LimiterStart
              /\ max_requests = rate_limit
              /\ time_window = rate_limit

RequestInit == RequestStart /\ CloseStart /\ RetryUnused /\ ModesUnused

SpecRequest == RequestInit /\ [][ClientNext]_vars

(***************************************************************************)
(* AsyncAPIClient with request() and close() calls interleaved            *)
(* (client.py 76-89 and 108-195).                                          *)
(***************************************************************************)
Callers == 1..NumCallers

\* client.py 38-74: the client, with the default timeout and a logger that
\* works.
CallsStart ==
    /\ client_max_retries = 3
    /\ rate_limit \in {NoLimit, 1}
    /\ enable_logging \in BOOLEAN
    /\ timeout_seconds = 1
    /\ timeoutArg = NoTimeout
    /\ logger_raises = FALSE
    /\ session = NoSession
    /\ sessionCount = 0
    /\ closedSessions = {}
    /\ cpc = [t \in Tasks |-> "idle"]
    /\ request_id = [t \in Tasks |-> 0]
    /\ nextRequestId = 1
    /\ transportCalls = [t \in Tasks |-> 0]
    /\ sentTimeout = [t \in Tasks |-> 0]
    /\ transportResult = [t \in Tasks |-> "none"]
    /\ reqResult = [t \in Tasks |-> None]
    /\ logs = <<>>
    /\ IF rate_limit = NoLimit
         THEN LimiterUnused
         ELSE /\ LimiterStart
              /\ max_requests = rate_limit
              /\ time_window = rate_limit

CallsInit == CallsStart /\ CloseStart /\ RetryUnused /\ ModesUnused

\* The variables of the client that close() leaves alone.
CloseFrame ==
    UNCHANGED <<client_max_retries, rate_limit, enable_logging, timeout_seconds,
                timeoutArg, logger_raises, sessionCount, cpc, request_id,
                nextRequestId, transportCalls, sentTimeout, transportResult,
                reqResult, logs>>

\* client.py 85-89: close() finds a session that is open and awaits its
\* close().  When the session starts to report closed during that await is
\* up to aiohttp: at once, or only when the await is over.
CloseBegin(early) ==
    /\ closes < MaxCloses
    /\ closing = NoSession
    /\ session # NoSession /\ session \notin closedSessions
    /\ closes' = closes + 1
    /\ closing' = session
    /\ closedSessions' = IF early THEN closedSessions \cup {session} ELSE closedSessions
    /\ UNCHANGED <<session, quiet>>
    /\ CloseFrame

\* client.py 88-89: the await is over: self._session = None, and close()
\* returns.
CloseEnd ==
    /\ closing # NoSession
    /\ closedSessions' = closedSessions \cup {closing}
    /\ session' = NoSession
    /\ closing' = NoSession
    /\ quiet' = TRUE
    /\ UNCHANGED closes
    /\ CloseFrame

\* client.py 87: close() finds no session, or a closed one, and returns.
CloseNothing ==
    /\ closes < MaxCloses
    /\ closing = NoSession
    /\ session = NoSession \/ session \in closedSessions
    /\ closes' = closes + 1
    /\ quiet' = TRUE
    /\ UNCHANGED <<session, closedSessions, closing>>
    /\ CloseFrame

\* The calls of such a run fail in one way each: the connection fails, or the
\* body cannot be read.
CallsTick == rate_limit # NoLimit /\ now < MaxCallTime /\ Advance

AdmitNext ==
    \/ \E t \in Callers : Request(t) /\ UNCHANGED <<retryVars, modeVars, closing, closes>>
    \/ \E t \in Callers : RequestLockGranted(t) /\ UNCHANGED <<retryVars, modeVars, closeVars>>
    \/ \E t \in Callers : RequestWakeUp(t) /\ UNCHANGED <<retryVars, modeVars, closeVars>>
    \/ \E t \in Callers : ResponseOk(t) /\ UNCHANGED <<retryVars, modeVars, closeVars>>
    \/ \E t \in Callers : TransportFails(t, "ClientConnectionError") /\ UNCHANGED <<retryVars, modeVars, closeVars>>
    \/ \E t \in Callers : BodyRead(t) /\ UNCHANGED <<retryVars, modeVars, closeVars>>
    \/ \E t \in Callers : BodyFails(t, "ClientPayloadError") /\ UNCHANGED <<retryVars, modeVars, closeVars>>
    \/ CallsTick /\ UNCHANGED <<retryVars, clientVars, modeVars, closeVars>>

\* request() calls alone.
SpecAdmit == CallsInit /\ [][AdmitNext]_vars

CallsNext ==
    \/ AdmitNext
    \/ \E early \in BOOLEAN : CloseBegin(early) /\ UNCHANGED <<retryVars, limVars, modeVars>>
    \/ CloseEnd /\ UNCHANGED <<retryVars, limVars, modeVars>>
    \/ CloseNothing /\ UNCHANGED <<retryVars, limVars, modeVars>>

\* request() and close() calls.
SpecCalls == CallsInit /\ [][CallsNext]_vars

(***************************************************************************)
(* Properties of the retry and timeout wrappers.                           *)
(***************************************************************************)
RetryDone == rpc \in {"returned", "raised"}

AllEvents(kind) == \A i \in 1..Len(fEvents) : fEvents[i].kind = kind

\* The delay the documentation promises before attempt n+1 (n 0-based).
PromisedDelay(n) == IF backoff = "exponential" THEN 2^n ELSE n + 1

\* C1: with max_retries = M >= 1 a function that raises on every invocation is
\* invoked exactly M times, the caller gets the exception of the M-th
\* invocation, and nothing (no invocation, no sleep) comes after it.
C1_AlwaysFailing ==
    (max_retries >= 1 /\ succeedsAt = Never /\ AllEvents("Exception")) =>
        /\ Len(fEvents) <= max_retries
        /\ RetryDone =>
             /\ rpc = "raised"
             /\ Len(fEvents) = max_retries
             /\ result = fEvents[max_retries]
             /\ result.kind = "Exception" /\ result.inv = max_retries
             /\ Len(sleeps) = max_retries - 1
        /\ ~RetryDone => Len(fEvents) < max_retries

C1_Witness ==
    /\ max_retries = 3 /\ succeedsAt = Never /\ ~guarded
    /\ rpc = "raised" /\ Len(fEvents) = 3 /\ result.inv = 3

\* C2: with max_retries = M >= 1 and 0 <= k < M, a function that fails on
\* invocations 0..k-1 and succeeds on invocation k is invoked exactly k+1
\* times, the caller gets that invocation's return value, and no sleep or
\* invocation follows the success.
C2_SucceedsOnK ==
    (max_retries >= 1 /\ succeedsAt \in 0..(max_retries - 1)) =>
        /\ Len(fEvents) <= succeedsAt + 1
        /\ Len(sleeps) <= succeedsAt
        /\ rpc # "raised"
        /\ RetryDone =>
             /\ Len(fEvents) = succeedsAt + 1
             /\ fEvents[succeedsAt + 1].kind = "return"
             /\ result = fEvents[succeedsAt + 1]
             /\ Len(sleeps) = succeedsAt
        /\ (Len(fEvents) = succeedsAt + 1) => RetryDone

C2_Witness ==
    /\ max_retries = 4 /\ succeedsAt = 2
    /\ rpc = "returned" /\ result.kind = "return" /\ result.inv = 3
    /\ Len(sleeps) = 2

\* C3: the sleep between failed attempt n and attempt n+1 is 2^n seconds under
\* "exponential" and n+1 seconds under "linear"; there is one such sleep per
\* failed attempt that is followed by another attempt.
C3_BackoffDelays ==
    /\ \A i \in 1..Len(sleeps) : sleeps[i] = PromisedDelay(i - 1) /\ sleeps[i] >= 0
    /\ rpc = "attempting" => Len(sleeps) = attempt /\ Len(fEvents) = attempt
    /\ rpc = "sleeping" =>
         /\ Len(sleeps) = attempt + 1
         /\ sleepLeft <= PromisedDelay(attempt)

C3_Witness ==
    /\ backoff = "exponential" /\ Len(sleeps) = 3 /\ sleeps[3] = 4
    /\ rpc = "attempting" /\ attempt = 3

\* C8: under timeout(seconds=d), an invocation still running when the deadline
\* elapses is cancelled and its caller gets asyncio.TimeoutError, never a
\* result; an invocation that completes first has its return value or its
\* exception passed to the caller unchanged.
C8_TimeoutOutcome ==
    guarded =>
        /\ rpc = "attempting" => fElapsed <= seconds
        /\ Len(outcomes) = Len(fEvents)
        /\ \A i \in 1..Len(fEvents) :
             IF fEvents[i].kind = "cancelled"
               THEN /\ outcomes[i].kind = "TimeoutError"
                    /\ fEvents[i].at >= seconds
               ELSE /\ outcomes[i] = fEvents[i]
                    /\ fEvents[i].at <= seconds
        /\ (RetryDone /\ Len(fEvents) > 0 /\ max_retries > 0) =>
             result = outcomes[Len(outcomes)]

C8_Witness ==
    /\ guarded /\ Len(fEvents) = 3
    /\ fEvents[1].kind = "cancelled" /\ outcomes[1].kind = "TimeoutError"
    /\ fEvents[2].kind = "Exception" /\ outcomes[2].kind = "Exception"
    /\ fEvents[3].kind = "return" /\ result.kind = "return"

\* C9: in retry(timeout(f)) an attempt that times out is a failed attempt like
\* any other: it counts toward max_retries and is followed by the same backoff
\* delay; timing out on every attempt makes exactly M attempts and then raises
\* the timeout error.
C9_TimeoutIsRetried ==
    (guarded /\ max_retries >= 1) =>
        /\ \A i \in 1..Len(outcomes) :
             outcomes[i].kind = "TimeoutError" =>
                /\ i <= max_retries
                /\ i < max_retries =>
                     /\ Len(sleeps) >= i
                     /\ sleeps[i] = PromisedDelay(i - 1)
                     /\ result # outcomes[i]
                /\ i = max_retries =>
                     /\ rpc = "raised"
                     /\ result = outcomes[i]
                     /\ Len(sleeps) = max_retries - 1
        /\ (AllEvents("cancelled") /\ RetryDone /\ succeedsAt = Never) =>
             /\ Len(fEvents) = max_retries
             /\ rpc = "raised"
             /\ result.kind = "TimeoutError"

C9_Witness ==
    /\ guarded /\ max_retries = 3 /\ AllEvents("cancelled")
    /\ rpc = "raised" /\ Len(fEvents) = 3 /\ result.kind = "TimeoutError"
    /\ Len(sleeps) = 2

(***************************************************************************)
(* Properties of the token-bucket RateLimiter.                             *)
(***************************************************************************)
\* C4: on a freshly constructed limiter of capacity C and window W, the first
\* C acquire() calls issued at the same instant return without sleeping, and
\* the (C+1)-th call issued at that instant sleeps W/C before it returns.
C4_BurstThenWait ==
    \A t \in 1..started :
        (t <= max_requests + 1 /\ calledAt[t] = calledAt[1]) =>
            /\ t <= max_requests =>
                 /\ tpc[t] = "done"
                 /\ \E i \in 1..Len(admitted) :
                      /\ admitted[i].task = t
                      /\ admitted[i].slept = 0
                      /\ admitted[i].at = calledAt[t]
            /\ t = max_requests + 1 =>
                 /\ tpc[t] \in {"sleeping", "done"}
                 /\ wait_time[t] * max_requests = time_window
                 /\ wakeAt[t] = calledAt[t] + wait_time[t]
                 /\ tpc[t] = "done" =>
                      \E i \in 1..Len(admitted) :
                          /\ admitted[i].task = t
                          /\ admitted[i].slept * max_requests = time_window
                          /\ admitted[i].at >= calledAt[t] + admitted[i].slept

C4_Witness ==
    /\ max_requests = 2 /\ time_window = 4
    /\ started >= 3 /\ calledAt[1] = 1 /\ calledAt[3] = 1
    /\ Len(admitted) = 3
    /\ admitted[2].slept = 0 /\ admitted[2].at = 1
    /\ admitted[3].slept = 2 /\ admitted[3].at = 3

\* C5: capacity 5, window 1.0 s, 10 tasks calling acquire() at t = 0 and doing
\* zero-cost work: the first 5 are admitted at t = 0 and the k-th of the
\* remaining ones k * W/C later (0.2 s, 0.4 s, ... 1.0 s).
C5_TenRequestsFivePerSecond ==
    max_requests = BurstCap =>
        \A i \in 1..Len(admitted) :
            admitted[i].at * max_requests =
                (IF i <= max_requests THEN 0 ELSE (i - max_requests) * time_window)

\* C6: in token-bucket mode the token count stays within 0..capacity whatever
\* the interleaving of acquire() calls.
C6_TokensInRange ==
    /\ tokens >= 0
    /\ tokens <= max_requests * One

C6_Witness ==
    /\ time_window = 2 * max_requests
    /\ Len(admitted) >= 2
    /\ \E t \in Tasks : tpc[t] = "lock_wait"
    /\ tokens > 0 /\ tokens < One

\* C7: the lock of the limiter is never held by a task suspended in the
\* rate-limit wait.
C7_NoSleepUnderLock ==
    \A t \in Tasks : tpc[t] = "sleeping" => lockHolder # t

\* C7 as amended: a task suspended in the rate-limit wait always holds the
\* lock, the lock is held across suspensions by nobody else, and so at most
\* one task sleeps at a time while the other callers queue on the lock.
C7_SleepUnderLock ==
    /\ \A t \in Tasks : tpc[t] = "sleeping" => lockHolder = t
    /\ lockHolder # NoTask => tpc[lockHolder] = "sleeping"
    /\ Cardinality({t \in Tasks : tpc[t] = "sleeping"}) <= 1
    /\ \A t \in Tasks : tpc[t] = "lock_wait" <=> (\E i \in 1..Len(lockWaiters) : lockWaiters[i] = t)

C7_Witness ==
    /\ \E t \in Tasks : tpc[t] = "sleeping" /\ lockHolder = t /\ now < wakeAt[t]
    /\ Len(lockWaiters) >= 2

(***************************************************************************)
(* Properties of AsyncAPIClient.request.                                   *)
(***************************************************************************)
\* C10: request() on a client with max_retries = M re-issues a transport call
\* that fails with an HTTP error status or a connection error, and raises to
\* the caller only after all M attempts have failed.
C10_RequestRetries ==
    \A t \in ClientTasks :
        (cpc[t] = "raised"
            /\ reqResult[t].kind \in {"ClientResponseError", "ClientConnectionError"}) =>
                transportCalls[t] = client_max_retries

(***************************************************************************)
(* Properties of RateLimiter in either mode.                               *)
(***************************************************************************)
Inside == {t \in Users : wpc[t] = "inside"}

\* C11: RateLimiter(max_requests <= 0) fails at construction with an error, so
\* no limiter of non-positive capacity is ever built and acquire() is never
\* run on one.
C11_NonPositiveCapacityRejected ==
    (max_requests <= 0 /\ lim # "none") =>
        /\ lim # "built"
        /\ started = 0

\* C12: in semaphore mode with capacity N, when the limiter is only used as
\* `async with limiter:`, at most N tasks are inside the block at any time
\* (the free slots and the tasks inside add up to N), and the first task
\* blocked in acquire() enters the block once a slot has been released.
C12_SemaphoreBoundsAndWakes ==
    /\ []((mode = "semaphore" /\ lim = "built" /\ strays = 0) =>
            /\ Cardinality(Inside) <= max_requests
            /\ semValue >= 0
            /\ semValue + Cardinality(Inside) = max_requests)
    /\ \A t \in Users :
          (mode = "semaphore" /\ wpc[t] = "entering"
              /\ semWaiters # <<>> /\ Head(semWaiters) = t /\ semValue > 0)
            ~> (wpc[t] = "inside")

C12_Witness ==
    /\ mode = "semaphore" /\ max_requests = 2 /\ strays = 0
    /\ wpc[1] = "exited" /\ wpc[2] = "inside" /\ wpc[3] = "inside"
    /\ 3 \in waited /\ semValue = 0

\* C17: in token-bucket mode with capacity > 0 and window > 0, whatever finite
\* number of tasks call acquire() and whenever they do, no call raises and
\* every call that was made returns in the end.
C17_EveryAcquireReturns ==
    /\ [](\A t \in Tasks : tpc[t] # "raised")
    /\ \A t \in Tasks : (tpc[t] \in {"lock_wait", "sleeping"}) ~> (tpc[t] = "done")

C17_Witness ==
    /\ Len(admitted) = 4
    /\ admitted[4].slept > 0 /\ admitted[4].at > admitted[4].called
    /\ admitted[1].called = admitted[4].called
    /\ max_requests = 1

\* C14: a request() called with timeout <= 0, or on a client built with
\* timeout <= 0, raises a configuration error before acquire() of the rate
\* limiter is invoked and before any transport call is made.
C14_NonPositiveTimeoutRaises ==
    ((timeoutArg.given /\ timeoutArg.total <= 0) \/ timeout_seconds <= 0) =>
        \A t \in ClientTasks :
            cpc[t] # "idle" =>
                /\ cpc[t] = "raised"
                /\ transportCalls[t] = 0
                /\ tpc[t] = "idle"

\* C15: a log_request that raises leaves the outcome of request() as it was:
\* a call whose transport call succeeded returns, and a call whose transport
\* call failed raises the error of the transport.
C15_LoggingNeverChangesOutcome ==
    \A t \in ClientTasks :
        /\ transportResult[t] = "ok" =>
              /\ cpc[t] = "returned"
              /\ reqResult[t].kind = "return"
        /\ transportResult[t] \notin {"none", "ok"} =>
              /\ cpc[t] = "raised"
              /\ reqResult[t].kind = transportResult[t]

(***************************************************************************)
(* Properties of the retry wrapper: configuration, cancellation, the lines *)
(* it prints and the exception it surfaces.                                *)
(***************************************************************************)
\* C13: a call of a function wrapped by retry(max_retries=M) with M <= 0
\* raises instead of returning, and the wrapper returns normally only with the
\* return value of an invocation that succeeded.
C13_NonPositiveMaxRetriesRaises ==
    /\ (max_retries <= 0 /\ RetryDone) => rpc = "raised"
    /\ rpc = "returned" =>
          /\ Len(fEvents) >= 1
          /\ fEvents[Len(fEvents)].kind = "return"
          /\ result = fEvents[Len(fEvents)]

\* C16: once the task is cancelled, during an invocation or during the backoff
\* sleep, the caller gets CancelledError; a cancellation during an invocation
\* reaches the function, is not treated as a failed attempt (no retry line, no
\* sleep for it), and no invocation or sleep starts after the cancellation.
C16_CancellationPropagates ==
    cancelled # "none" =>
        /\ rpc = "raised"
        /\ result.kind = "CancelledError"
        /\ Len(events) = Len(sleeps)
        /\ \A i \in 1..Len(events) : events[i].cause # "CancelledError"
        /\ cancelled = "attempt" =>
              /\ Len(fEvents) >= 1
              /\ fEvents[Len(fEvents)].kind = "CancelledError"
              /\ result = outcomes[Len(outcomes)]
              /\ result.inv = Len(fEvents)
              /\ Len(sleeps) = Len(fEvents) - 1
        /\ cancelled = "sleep" =>
              /\ Len(sleeps) = Len(fEvents)
              /\ \A i \in 1..Len(fEvents) : fEvents[i].kind # "CancelledError"

C16_Witness ==
    /\ cancelled = "attempt" /\ guarded /\ max_retries = 3
    /\ Len(fEvents) = 2 /\ fEvents[2].kind = "CancelledError"
    /\ Len(sleeps) = 1 /\ rpc = "raised"

\* C18: with max_retries = 3 and exponential backoff, an operation that fails
\* on attempts 0 and 1 and succeeds on attempt 2 emits exactly three events:
\* two retry events (attempt, delay and cause, each before its sleep) and one
\* success event, with delays 1 s then 2 s.
C18_ThreeLifecycleEvents ==
    (max_retries = 3 /\ backoff = "exponential" /\ succeedsAt = 2 /\ rpc = "returned") =>
        /\ sleeps = <<1, 2>>
        /\ Len(events) = 3
        /\ events[1].event = "retry" /\ events[1].attempt = 1 /\ events[1].delay = 1
        /\ events[2].event = "retry" /\ events[2].attempt = 2 /\ events[2].delay = 2
        /\ events[3].event = "success"

\* C19: when all attempts are exhausted, the failure the caller gets carries
\* the number of attempts used together with the last cause.
C19_CarriesAttemptCount ==
    rpc = "raised" =>
        /\ "attempts" \in DOMAIN result
        /\ result.attempts = Len(fEvents)

\* C19 as amended: when all attempts are exhausted the caller gets the very
\* exception the last attempt ended with (the function's own exception, or
\* the TimeoutError of the timeout wrapper), unchanged: it is the last cause
\* and nothing, in particular no attempt count, is attached to it.
C19_RaisesLastException ==
    rpc = "raised" =>
        /\ max_retries >= 1
        /\ Len(outcomes) = max_retries
        /\ result = outcomes[max_retries]
        /\ result.inv = max_retries
        /\ DOMAIN result = DOMAIN fEvents[max_retries]

C19_Witness ==
    /\ rpc = "raised" /\ max_retries = 3 /\ guarded
    /\ Len(outcomes) = 3 /\ outcomes[1].kind = "Exception"
    /\ result.kind = "TimeoutError" /\ result.inv = 3

\* C20: every event emitted for one operation, each retry event included,
\* carries the operation's request id, which is the same in all of them.
C20_EventsShareRequestId ==
    \A i \in 1..Len(events) :
        /\ "request_id" \in DOMAIN events[i]
        /\ events[i].request_id = events[1].request_id

(***************************************************************************)
(* Ordering of attempts, admission bound, log events and free slots.       *)
(***************************************************************************)
\* C22: an attempt of a retry-wrapped call begins only when every earlier
\* attempt has finished (returned, raised or been cancelled by the deadline)
\* and the backoff sleep after the previous one has run out; the attempts
\* begun exceed the attempts finished by at most one.
C22_AttemptsSequential ==
    [][/\ (rpc' = "attempting" /\ (rpc # "attempting" \/ attempt' # attempt)) =>
            /\ rpc \in {"idle", "sleeping"}
            /\ attempt' = Len(fEvents)
            /\ attempt' = Len(outcomes)
            /\ rpc = "sleeping" =>
                  /\ sleepLeft = 0
                  /\ attempt' = attempt + 1
                  /\ Len(sleeps) = attempt'
       /\ (rpc' # "idle" /\ max_retries >= 1) =>
            (attempt' + 1) - Len(fEvents') \in {0, 1}
       /\ rpc' = "attempting" <=> (max_retries >= 1 /\ rpc' # "idle"
                                     /\ (attempt' + 1) - Len(fEvents') = 1)]_vars

C22_Witness ==
    /\ rpc = "attempting" /\ attempt = 2 /\ guarded
    /\ Len(fEvents) = 2 /\ fEvents[2].kind = "cancelled"
    /\ sleeps = <<1, 2>> /\ sleepLeft = 0

\* C23: in token-bucket mode with capacity C and window W, at every time t
\* the acquire() calls that have returned number at most C + t*C/W.
C23_AdmissionBound ==
    Len(admitted) * time_window <= max_requests * time_window + now * max_requests

\* C24: with logging enabled a finished request() call has emitted exactly one
\* api_request event: with status, without error and at info level when it
\* returned, with an error field and at error level when it raised, whatever
\* the exception.
C24_OneEventPerRequest ==
    enable_logging =>
        \A t \in ClientTasks :
            LET mine == {i \in 1..Len(logs) : logs[i].request_id = request_id[t]} IN
            /\ cpc[t] \in {"idle", "acquiring", "transport", "reading"} =>
                  (cpc[t] = "idle" \/ mine = {})
            /\ cpc[t] = "returned" =>
                  /\ Cardinality(mine) = 1
                  /\ \A i \in mine :
                        /\ logs[i].event = "api_request"
                        /\ "status" \in logs[i].fields
                        /\ "error" \notin logs[i].fields
                        /\ logs[i].level = "info"
            /\ cpc[t] = "raised" =>
                  /\ Cardinality(mine) = 1
                  /\ \A i \in mine :
                        /\ logs[i].event = "api_request"
                        /\ "error" \in logs[i].fields
                        /\ logs[i].level = "error"

\* C26: in semaphore mode with capacity N, whatever acquire() and release()
\* calls are made, release() calls without an acquire() included, the free
\* slots never exceed N and neither do the tasks inside.
C26_SlotsNeverExceedCapacity ==
    (mode = "semaphore" /\ lim = "built") =>
        /\ semValue <= max_requests
        /\ Cardinality(Inside) <= max_requests

\* C25: a step that cancels a task suspended in token-bucket acquire() (queued
\* on the lock or sleeping for a token) leaves tokens and the admissions as
\* they were and leaves the task neither holding the lock nor queued on it;
\* every other task suspended in acquire() still gets out of it, admitted
\* unless it is cancelled itself.
C25_CancelledAcquireReleases ==
    /\ [][\A t \in Tasks :
            (tpc[t] \in {"lock_wait", "sleeping"} /\ tpc'[t] = "cancelled") =>
                /\ tokens' = tokens
                /\ admitted' = admitted
                /\ lockHolder' # t
                /\ tpc[t] = "sleeping" => lockHolder' = NoTask
                /\ \A i \in 1..Len(lockWaiters') : lockWaiters'[i] # t]_vars
    /\ [](\A t \in Tasks : tpc[t] = "cancelled" =>
              \A i \in 1..Len(admitted) : admitted[i].task # t)
    /\ \A t \in Tasks :
          (tpc[t] \in {"lock_wait", "sleeping"}) ~> (tpc[t] \in {"done", "cancelled"})

C25_Witness ==
    /\ tpc[2] = "cancelled" /\ wait_time[2] > 0
    /\ tpc[3] = "done"
    /\ calledAt[3] = calledAt[2]
    /\ \E i \in 1..Len(admitted) : admitted[i].task = 3 /\ admitted[i].slept > 0

(***************************************************************************)
(* Properties of request() and close().                                    *)
(***************************************************************************)
AdmissionsOf(t) == {i \in 1..Len(admitted) : admitted[i].task = t}

\* C21: with a rate limiter, every request() call invokes acquire() exactly
\* once, and its transport call is issued only after that acquire() has
\* returned; without one, request() never waits on a limiter.
C21_AcquireOnceBeforeTransport ==
    /\ rate_limit # NoLimit =>
          /\ started = nextRequestId - 1
          /\ \A t \in Tasks :
                /\ cpc[t] = "idle" <=> tpc[t] = "idle"
                /\ cpc[t] = "acquiring" <=> tpc[t] \in {"lock_wait", "sleeping"}
                /\ (transportCalls[t] >= 1 \/ cpc[t] \in {"transport", "reading", "returned", "raised"}) =>
                      /\ tpc[t] = "done"
                      /\ Cardinality(AdmissionsOf(t)) = 1
                /\ Cardinality(AdmissionsOf(t)) <= 1
    /\ rate_limit = NoLimit =>
          /\ started = 0 /\ admitted = <<>>
          /\ \A t \in Tasks : tpc[t] = "idle" /\ cpc[t] # "acquiring"

C21_Witness ==
    /\ rate_limit = 1
    /\ cpc[3] = "transport" /\ transportCalls[3] = 1
    /\ \E i \in AdmissionsOf(3) : admitted[i].slept > 0 /\ admitted[i].at > admitted[i].called

\* C27: once a close() call has completed and no request() has begun since,
\* every session the client created is closed; and a session that is open is
\* the one the client references.
C27_CloseLeavesNoOpenSession ==
    /\ quiet => \A s \in 1..sessionCount : s \in closedSessions
    /\ \A s \in 1..sessionCount : s \notin closedSessions => s = session

====
